---- MODULE Spec2Model ----
(***************************************************************************)
(* Model of scripts/compare-openapi-breaking.py (resolve_ref,              *)
(* schema_breaks, required_params, main) and of lambda_handler of          *)
(* infra/lambdas/db_password_rotation/lambda_function.py.                  *)
(*                                                                         *)
(* Python strings are sequences of one-character strings, so that          *)
(* startswith, split, lower, upper, concatenation and the code-point order *)
(* used by sorted() are computed and not assumed.  JSON values are tagged  *)
(* records [k, v]; a JSON object is a function from keys (strings) to JSON *)
(* values, and Python's None is JSON null.                                 *)
(***************************************************************************)
EXTENDS Integers, Sequences, FiniteSets, TLC

VARIABLES
    \* one call of schema_breaks(base_schema, curr_schema, base_doc, curr_doc, ctx)
    base_schema, curr_schema, base_doc, curr_doc, ctx, out, spc,
    \* one run of main()
    argc, base, current, breaking, todo, ops, pc, exc, exit_code,
    \* one call of resolve_ref(rr_schema, rr_doc), frame by frame
    rr_schema, rr_doc, rr_node, rr_seen, rr_calls, rr_result, rr_pc,
    \* the secret, the cluster and the service that lambda_handler of
    \* db_password_rotation acts on, its environment and its last invocation
    VersionIdsToStages, RotationEnabled, SecretString, MasterUserPassword,
    deployments, environ, event, outcome

schemaVars == <<base_schema, curr_schema, base_doc, curr_doc, ctx, out, spc>>
mainVars == <<argc, base, current, breaking, todo, ops, pc, exc, exit_code>>
resolveVars == <<rr_schema, rr_doc, rr_node, rr_seen, rr_calls, rr_result, rr_pc>>
rotationVars == <<VersionIdsToStages, RotationEnabled, SecretString, MasterUserPassword,
                  deployments, environ, event, outcome>>
vars == <<base_schema, curr_schema, base_doc, curr_doc, ctx, out, spc,
          argc, base, current, breaking, todo, ops, pc, exc, exit_code,
          rr_schema, rr_doc, rr_node, rr_seen, rr_calls, rr_result, rr_pc,
          VersionIdsToStages, RotationEnabled, SecretString, MasterUserPassword,
          deployments, environ, event, outcome>>

(***************************************************************************)
(* Bounds of the model.                                                    *)
(***************************************************************************)
\* Depth of nested schema_breaks frames at which CPython raises RecursionError
\* (sys.getrecursionlimit() is 1000; the model uses a small limit that no
\* acyclic input of the model reaches).
RecursionLimit == 6

(***************************************************************************)
(* Python strings.                                                         *)
(***************************************************************************)
\* Printable ASCII in code-point order, from code point 32.  Code point 96
\* (grave accent) cannot be written in a string literal here and is held by
\* a name that no string of the model uses.
Ascii ==
    <<" ", "!", "\"", "#", "$", "%", "&", "'", "(", ")", "*", "+", ",", "-", ".", "/",
      "0", "1", "2", "3", "4", "5", "6", "7", "8", "9", ":", ";", "<", "=", ">", "?",
      "@", "A", "B", "C", "D", "E", "F", "G", "H", "I", "J", "K", "L", "M", "N", "O",
      "P", "Q", "R", "S", "T", "U", "V", "W", "X", "Y", "Z", "[", "\\", "]", "^", "_",
      "grave", "a", "b", "c", "d", "e", "f", "g", "h", "i", "j", "k", "l", "m", "n", "o",
      "p", "q", "r", "s", "t", "u", "v", "w", "x", "y", "z", "{", "|", "}", "~">>

AsciiChars == {Ascii[i] : i \in 1..Len(Ascii)}

\* ord(ch)
Code == [ch \in AsciiChars |-> 31 + (CHOOSE i \in 1..Len(Ascii) : Ascii[i] = ch)]

\* chr(n)
Chr(n) == Ascii[n - 31]

\* s < t for Python strings: lexicographic in code points, a proper prefix first.
StrLess(s, t) ==
    \E i \in 1..(Len(s) + 1) :
        /\ i <= Len(t)
        /\ \A j \in 1..(i - 1) : s[j] = t[j]
        /\ (i = Len(s) + 1 \/ Code[s[i]] < Code[t[i]])

\* s.startswith(p)
StartsWith(s, p) == Len(s) >= Len(p) /\ SubSeq(s, 1, Len(p)) = p

\* ch.lower(), ch.upper() on one ASCII character
LowerChar(ch) == IF Code[ch] >= 65 /\ Code[ch] <= 90 THEN Chr(Code[ch] + 32) ELSE ch
UpperChar(ch) == IF Code[ch] >= 97 /\ Code[ch] <= 122 THEN Chr(Code[ch] - 32) ELSE ch

\* s.lower(), s.upper()
Lower(s) == [i \in 1..Len(s) |-> LowerChar(s[i])]
Upper(s) == [i \in 1..Len(s) |-> UpperChar(s[i])]

\* s.split(sep) for a one-character separator
RECURSIVE Split(_, _)
Split(s, sep) ==
    IF \A i \in 1..Len(s) : s[i] # sep
    THEN <<s>>
    ELSE LET i == CHOOSE n \in 1..Len(s) : s[n] = sep /\ \A m \in 1..(n - 1) : s[m] # sep
         IN  <<SubSeq(s, 1, i - 1)>> \o Split(SubSeq(s, i + 1, Len(s)), sep)

\* sorted(S) for a set of strings, as a list.  SortedStrsDesc is the same list
\* in descending order (sorted(S, reverse=True)).
RECURSIVE SortedStrsDesc(_)
SortedStrsDesc(S) ==
    IF S = {} THEN <<>>
    ELSE LET m == CHOOSE x \in S : \A y \in S : x = y \/ StrLess(y, x)
         IN  <<m>> \o SortedStrsDesc(S \ {m})

RECURSIVE SortedFrom(_)
SortedFrom(S) ==
    IF S = {} THEN <<>>
    ELSE LET m == CHOOSE x \in S : \A y \in S : x = y \/ StrLess(x, y)
         IN  <<m>> \o SortedFrom(S \ {m})

SortedStrs(S) == SortedFrom(S)

\* The elements of a list, as a set: set(xs)
SetOf(xs) == {xs[i] : i \in 1..Len(xs)}

(***************************************************************************)
(* JSON values as json.load returns them.                                  *)
(***************************************************************************)
JNull == [k |-> "null", v |-> <<>>]
JBool(b) == [k |-> "bool", v |-> b]
JNum(n) == [k |-> "num", v |-> n]
JStr(s) == [k |-> "str", v |-> s]
JArr(a) == [k |-> "arr", v |-> a]
JObj(f) == [k |-> "obj", v |-> f]

EmptyDict == JObj([key \in {} |-> JNull])

\* A dict from a list of <<key, value>> pairs (keys distinct).
Dict(kvs) ==
    JObj([key \in {kvs[i][1] : i \in 1..Len(kvs)} |->
             kvs[CHOOSE i \in 1..Len(kvs) : kvs[i][1] = key][2]])

\* isinstance(x, dict), isinstance(x, list), isinstance(x, str)
IsDict(x) == x.k = "obj"
IsList(x) == x.k = "arr"
IsStr(x) == x.k = "str"

\* a == b on JSON values
JEq(a, b) == a.k = b.k /\ a.v = b.v

\* bool(x): None, False, 0, "", [] and {} are falsy
Truthy(x) ==
    CASE x.k = "null" -> FALSE
      [] x.k = "bool" -> x.v
      [] x.k = "num" -> x.v # 0
      [] x.k = "str" -> Len(x.v) > 0
      [] x.k = "arr" -> Len(x.v) > 0
      [] x.k = "obj" -> DOMAIN x.v # {}

\* d.get(key) on a dict
Get(d, key) == IF key \in DOMAIN d.v THEN d.v[key] ELSE JNull

\* set(d), the keys of a dict
Keys(d) == DOMAIN d.v

\* x or {}
OrDict(x) == IF Truthy(x) THEN x ELSE EmptyDict

\* x or []
OrList(x) == IF Truthy(x) THEN x ELSE JArr(<<>>)

(***************************************************************************)
(* String literals of the program and of the documents of the model.       *)
(***************************************************************************)
S_ref == <<"$", "r", "e", "f">>
S_type == <<"t", "y", "p", "e">>
S_enum == <<"e", "n", "u", "m">>
S_required == <<"r", "e", "q", "u", "i", "r", "e", "d">>
S_properties == <<"p", "r", "o", "p", "e", "r", "t", "i", "e", "s">>
S_items == <<"i", "t", "e", "m", "s">>
S_object == <<"o", "b", "j", "e", "c", "t">>
S_array == <<"a", "r", "r", "a", "y">>
S_string == <<"s", "t", "r", "i", "n", "g">>
S_integer == <<"i", "n", "t", "e", "g", "e", "r">>
S_hashslash == <<"#", "/">>

(***************************************************************************)
(* resolve_ref                                                             *)
(***************************************************************************)
\* The loop of lines 16-20: walk doc along the tokens; ok is FALSE when a token
\* is missing or the node reached is not a dict.
RECURSIVE Walk(_, _)
Walk(node, tokens) ==
    IF Len(tokens) = 0 THEN [ok |-> TRUE, node |-> node]
    ELSE IF ~IsDict(node) \/ Head(tokens) \notin DOMAIN node.v
         THEN [ok |-> FALSE, node |-> node]
         ELSE Walk(node.v[Head(tokens)], Tail(tokens))

\* ref[2:].split("/")
RefTokens(ref) == Split(SubSeq(ref, 3, Len(ref)), "/")

\* line 10: the node carries a string "$ref" that starts with "#/"
HasLocalRef(schema) ==
    LET ref == Get(schema, S_ref)
    IN  Truthy(ref) /\ IsStr(ref) /\ StartsWith(ref.v, S_hashslash)

RECURSIVE resolve_ref(_, _, _)
resolve_ref(schema, doc, seen) ==
    IF ~IsDict(schema) THEN schema
    ELSE IF ~HasLocalRef(schema) THEN schema
    ELSE LET ref == Get(schema, S_ref).v
             w == Walk(doc, RefTokens(ref))
         IN  IF ref \in seen THEN schema
             ELSE IF ~w.ok THEN schema
             ELSE resolve_ref(w.node, doc, seen \cup {ref})

(***************************************************************************)
(* schema_breaks                                                           *)
(***************************************************************************)
\* A finding is the formatted message "{ctx}: {text of kind} {detail}".
Finding(kind, c, detail) == [kind |-> kind, ctx |-> c, detail |-> detail]

\* line 34 with == for !=
TypeChangedSame(b_type, c_type) ==
    Truthy(b_type) /\ Truthy(c_type) /\ JEq(b_type, c_type)

\* line 34: b_type and c_type and b_type != c_type
TypeChanged(b_type, c_type) ==
    Truthy(b_type) /\ Truthy(c_type) /\ ~JEq(b_type, c_type)

\* lines 38-43: the enum finding, or nothing
EnumFindings(b, c, c_ctx) ==
    LET b_enum == Get(b, S_enum)
        c_enum == Get(c, S_enum)
    IN  IF IsList(b_enum) /\ IsList(c_enum)
        THEN LET removed == SortedStrs({m.v : m \in SetOf(b_enum.v) \ SetOf(c_enum.v)})
             IN  IF Len(removed) > 0
                 THEN <<Finding("enum values removed", c_ctx, removed)>>
                 ELSE <<>>
        ELSE <<>>

\* line 45: (b_type == "object") or ("properties" in b)
ObjectLike(b) == JEq(Get(b, S_type), JStr(S_object)) \/ S_properties \in Keys(b)

\* set(x.get("required") or [])
RequiredSet(x) == {m.v : m \in SetOf(OrList(Get(x, S_required)).v)}

\* x.get("properties") or {}
Props(x) == OrDict(Get(x, S_properties))

\* lines 46-50
RequiredFindings(b, c, c_ctx) ==
    LET removed_required == SortedStrs(RequiredSet(b) \ RequiredSet(c))
    IN  IF Len(removed_required) > 0
        THEN <<Finding("required fields removed", c_ctx, removed_required)>>
        ELSE <<>>

\* line 55 with the operands exchanged
AddedPropNames(b, c) == Keys(Props(c)) \ Keys(Props(b))

\* line 55: set(b_props) - set(c_props)
RemovedPropNames(b, c) == Keys(Props(b)) \ Keys(Props(c))

\* lines 55-57
PropsFindings(b, c, c_ctx) ==
    LET removed_props == SortedStrs(RemovedPropNames(b, c))
    IN  IF Len(removed_props) > 0
        THEN <<Finding("response properties removed", c_ctx, removed_props)>>
        ELSE <<>>

\* line 59 in descending order
SharedPropNamesDesc(b, c) == SortedStrsDesc(Keys(Props(b)) \cap Keys(Props(c)))

\* line 59: sorted(set(b_props) & set(c_props))
SharedPropNames(b, c) == SortedStrs(Keys(Props(b)) \cap Keys(Props(c)))

\* The result of a call: the list returned, or raised = TRUE when the call
\* ends in RecursionError (its local list is then lost).
Returned(findings) == [raised |-> FALSE, out |-> findings]
Raised == [raised |-> TRUE, out |-> <<>>]

\* Appending r1 and then r2 to a list, where an exception in r1 keeps r2 from
\* running; out is what has been appended when the exception passes.
Then(r1, r2) ==
    IF r1.raised THEN r1
    ELSE [raised |-> r2.raised, out |-> r1.out \o r2.out]

RECURSIVE schema_breaks(_, _, _, _, _, _)
RECURSIVE PropsLoop(_, _, _, _, _, _, _)

\* lines 59-68: the loop over the shared properties, from the i-th on
PropsLoop(names, i, b, c, bdoc, cdoc, fr) ==
    IF i > Len(names) THEN Returned(<<>>)
    ELSE LET r == schema_breaks(Props(b).v[names[i]], Props(c).v[names[i]],
                                bdoc, cdoc, fr.ctx \o <<".">> \o names[i], fr.depth + 1)
         IN  Then(r, PropsLoop(names, i + 1, b, c, bdoc, cdoc, fr))

\* lines 24-81; depth is the number of schema_breaks frames on the stack
schema_breaks(bs, cs, bdoc, cdoc, c_ctx, depth) ==
    IF depth > RecursionLimit THEN Raised
    ELSE
    LET b == resolve_ref(OrDict(bs), bdoc, {})
        c == resolve_ref(OrDict(cs), cdoc, {})
    IN  IF ~IsDict(b) \/ ~IsDict(c) THEN Returned(<<>>)
        ELSE
        LET b_type == Get(b, S_type)
            c_type == Get(c, S_type)
        IN  IF TypeChanged(b_type, c_type)
            THEN Returned(<<Finding("schema type changed", c_ctx, <<b_type.v, c_type.v>>)>>)
            ELSE
            LET fr == [ctx |-> c_ctx, depth |-> depth]
                objectPart ==
                    IF ObjectLike(b)
                    THEN Then(Returned(RequiredFindings(b, c, c_ctx) \o PropsFindings(b, c, c_ctx)),
                              PropsLoop(SharedPropNames(b, c), 1, b, c, bdoc, cdoc, fr))
                    ELSE Returned(<<>>)
                arrayPart ==
                    IF JEq(b_type, JStr(S_array)) /\ JEq(c_type, JStr(S_array))
                    THEN schema_breaks(OrDict(Get(b, S_items)), OrDict(Get(c, S_items)),
                                       bdoc, cdoc, c_ctx \o <<"[", "]">>, depth + 1)
                    ELSE Returned(<<>>)
                all == Then(Then(Returned(EnumFindings(b, c, c_ctx)), objectPart), arrayPart)
            IN  IF all.raised THEN Raised ELSE all

(***************************************************************************)
(* Inputs of the model: documents and schemas.                             *)
(***************************************************************************)
S_d == <<"d">>
S_x == <<"x">>
S_y == <<"y">>
S_v == <<"v">>
S_next == <<"n", "e", "x", "t">>
S_a == <<"a">>
S_b == <<"b">>
S_c == <<"c">>

\* {"$ref": "#/d/<name>"}
Rf(name) == Dict(<< <<S_ref, JStr(<<"#", "/", "d", "/">> \o name)>> >>)

\* {"type": t}, {"type": t, "enum": [...]}
Typed(t) == Dict(<< <<S_type, JStr(t)>> >>)
TypedEnum(t, members) ==
    Dict(<< <<S_type, JStr(t)>>, <<S_enum, JArr([i \in 1..Len(members) |-> JStr(members[i])])>> >>)

StrAB == TypedEnum(S_string, <<S_a, S_b>>)
StrA == TypedEnum(S_string, <<S_a>>)

\* Node.properties.next.$ref -> Node itself
Node ==
    Dict(<< <<S_type, JStr(S_object)>>,
            <<S_properties, Dict(<< <<S_next, Rf(<<"N">>)>>, <<S_v, Typed(S_string)>> >>)>> >>)

\* The part of the two documents that pointers reach: doc["d"][name]
CompsA ==
    Dict(<< <<<<"N">>, Node>>,
            <<<<"L">>, StrAB>>,
            <<<<"P">>, Rf(<<"L">>)>>,
            <<<<"S">>, Rf(<<"S">>)>>,
            <<<<"A">>, Rf(<<"B">>)>>,
            <<<<"B">>, Rf(<<"A">>)>>,
            <<<<"T">>, JBool(TRUE)>>,
            <<<<"F">>, JBool(FALSE)>>,
            <<<<"O">>, Dict(<< <<S_type, JStr(S_object)>>,
                              <<S_required, JArr(<<JStr(S_x)>>)>>,
                              <<S_properties, Dict(<< <<S_x, Typed(S_string)>> >>)>> >>)>> >>)

CompsB ==
    Dict(<< <<<<"N">>, Node>>,
            <<<<"L">>, StrA>>,
            <<<<"P">>, Rf(<<"L">>)>>,
            <<<<"S">>, Rf(<<"S">>)>>,
            <<<<"A">>, Rf(<<"B">>)>>,
            <<<<"B">>, Rf(<<"A">>)>>,
            <<<<"T">>, JBool(TRUE)>>,
            <<<<"F">>, JBool(FALSE)>>,
            <<<<"O">>, Dict(<< <<S_type, JStr(S_object)>>,
                              <<S_properties, Dict(<< <<S_x, Typed(S_integer)>> >>)>> >>)>> >>)

SchemaDocs == {Dict(<< <<S_d, CompsA>> >>), Dict(<< <<S_d, CompsB>> >>)}

\* Values that are not objects
NonObjects ==
    {JNull, JBool(TRUE), JBool(FALSE), JNum(0), JNum(1), JStr(<<>>), JStr(S_x),
     JArr(<<>>), JArr(<<JStr(S_a)>>)}

\* Pointers that resolve, that run into a cycle, that have a missing segment
\* ("#/d/M"), that walk through a string ("#/d/L/type/x"), that are not local
\* ("o#/d/L") and a "$ref" that is not a string.
RefSchemas ==
    {Rf(<<"N">>), Rf(<<"L">>), Rf(<<"P">>), Rf(<<"S">>), Rf(<<"A">>), Rf(<<"T">>),
     Rf(<<"F">>), Rf(<<"O">>), Rf(<<"M">>),
     Rf(<<"L", "/", "t", "y", "p", "e", "/", "x">>),
     Dict(<< <<S_ref, JStr(<<"o", "#", "/", "d", "/", "L">>)>> >>),
     Dict(<< <<S_ref, JNum(1)>> >>)}

LeafSchemas ==
    {EmptyDict, Typed(S_string), Typed(S_integer), StrAB, StrA,
     Dict(<< <<S_enum, JArr(<<JStr(S_a), JStr(S_b), JStr(S_c)>>)>> >>),
     Dict(<< <<S_enum, JArr(<<JStr(S_c)>>)>> >>)}

\* Object schemas: with or without "type": "object", "required" absent, ["x"]
\* or ["x", "y"], and each of the properties x and y absent or one of two
\* schemas.
XSchema(i) == IF i = 1 THEN StrAB ELSE StrA
YSchema(i) == IF i = 1 THEN Typed(S_integer) ELSE Typed(S_string)
ObjectSchema(t, r, px, py) ==
    Dict(  (IF t = 1 THEN << <<S_type, JStr(S_object)>> >> ELSE <<>>)
        \o (IF r = 1 THEN << <<S_required, JArr(<<JStr(S_x)>>)>> >>
            ELSE IF r = 2 THEN << <<S_required, JArr(<<JStr(S_x), JStr(S_y)>>)>> >>
            ELSE <<>>)
        \o (IF t = 1 /\ px = 0 /\ py = 0 THEN <<>>
            ELSE << <<S_properties,
                      Dict(  (IF px > 0 THEN << <<S_x, XSchema(px)>> >> ELSE <<>>)
                          \o (IF py > 0 THEN << <<S_y, YSchema(py)>> >> ELSE <<>>))>> >>))

ObjectSchemas ==
    {ObjectSchema(t, r, px, py) : t \in 0..1, r \in 0..2, px \in 0..2, py \in 0..2}

\* Arrays, arrays that also carry properties and an enum, and nested objects.
FullA ==
    Dict(<< <<S_type, JStr(S_array)>>,
            <<S_enum, JArr(<<JStr(S_a), JStr(S_b)>>)>>,
            <<S_required, JArr(<<JStr(S_x), JStr(S_y)>>)>>,
            <<S_properties, Dict(<< <<S_v, Typed(S_string)>>, <<S_x, StrAB>>,
                                    <<S_y, TypedEnum(S_string, <<S_b, S_c>>)>> >>)>>,
            <<S_items, StrAB>> >>)
FullB ==
    Dict(<< <<S_type, JStr(S_array)>>,
            <<S_enum, JArr(<<JStr(S_a)>>)>>,
            <<S_required, JArr(<<JStr(S_x)>>)>>,
            <<S_properties, Dict(<< <<S_x, StrA>>,
                                    <<S_y, TypedEnum(S_string, <<S_c>>)>> >>)>>,
            <<S_items, StrA>> >>)

ArraySchemas ==
    {Typed(S_array),
     Dict(<< <<S_type, JStr(S_array)>>, <<S_items, StrAB>> >>),
     Dict(<< <<S_type, JStr(S_array)>>, <<S_items, StrA>> >>),
     Dict(<< <<S_type, JStr(S_array)>>, <<S_items, Rf(<<"O">>)>> >>),
     FullA, FullB}

NestedSchemas ==
    {Dict(<< <<S_type, JStr(S_object)>>,
             <<S_properties, Dict(<< <<S_x, ObjectSchema(1, 1, 1, 1)>> >>)>> >>),
     Dict(<< <<S_type, JStr(S_object)>>,
             <<S_properties, Dict(<< <<S_x, ObjectSchema(0, 0, 2, 0)>> >>)>> >>)}

SchemaInputs ==
    NonObjects \cup RefSchemas \cup LeafSchemas \cup ObjectSchemas
        \cup ArraySchemas \cup NestedSchemas \cup {Node}

(***************************************************************************)
(* One call of schema_breaks on inputs of the model.                       *)
(***************************************************************************)
ResolveIdle ==
    /\ rr_schema = JNull /\ rr_doc = JNull /\ rr_node = JNull /\ rr_seen = {}
    /\ rr_calls = 0 /\ rr_result = JNull /\ rr_pc = "idle"

RotationIdle ==
    /\ VersionIdsToStages = <<>> /\ RotationEnabled = FALSE /\ SecretString = <<>>
    /\ MasterUserPassword = "" /\ deployments = 0 /\ environ = {}
    /\ event = [ClientRequestToken |-> "", Step |-> ""] /\ outcome = "idle"

MainIdle ==
    /\ argc = 0 /\ base = JNull /\ current = JNull /\ breaking = <<>>
    /\ todo = <<>> /\ ops = <<>> /\ pc = "idle" /\ exc = "none" /\ exit_code = -1

InitSchema ==
    /\ base_schema \in SchemaInputs
    /\ curr_schema \in SchemaInputs
    /\ base_doc \in SchemaDocs
    /\ curr_doc \in SchemaDocs
    /\ ctx = S_c
    /\ out = <<>>
    /\ spc = "call"
    /\ MainIdle /\ ResolveIdle /\ RotationIdle

\* The call returns its list of findings.
SchemaBreaksReturns ==
    /\ spc = "call"
    /\ LET r == schema_breaks(base_schema, curr_schema, base_doc, curr_doc, ctx, 1)
       IN  /\ ~r.raised
           /\ out' = r.out
    /\ spc' = "returned"
    /\ UNCHANGED <<base_schema, curr_schema, base_doc, curr_doc, ctx>>
    /\ UNCHANGED <<mainVars, resolveVars, rotationVars>>

\* The call ends in RecursionError.
SchemaBreaksRaises ==
    /\ spc = "call"
    /\ schema_breaks(base_schema, curr_schema, base_doc, curr_doc, ctx, 1).raised
    /\ spc' = "raised"
    /\ UNCHANGED <<base_schema, curr_schema, base_doc, curr_doc, ctx, out>>
    /\ UNCHANGED <<mainVars, resolveVars, rotationVars>>

NextSchema == SchemaBreaksReturns \/ SchemaBreaksRaises

SpecSchema == InitSchema /\ [][NextSchema]_vars

(***************************************************************************)
(* Properties of schema_breaks, checked under SpecSchema.                  *)
(***************************************************************************)
\* What lines 26-27 hand to the comparison.
ResolvedBase == resolve_ref(OrDict(base_schema), base_doc, {})
ResolvedCurr == resolve_ref(OrDict(curr_schema), curr_doc, {})

\* The keys of x["properties"] and the members of x["required"], read off the
\* JSON value itself.
PropertyNamesOf(x) ==
    IF S_properties \in DOMAIN x.v /\ x.v[S_properties].k = "obj"
    THEN DOMAIN x.v[S_properties].v ELSE {}
RequiredNamesOf(x) ==
    IF S_required \in DOMAIN x.v /\ x.v[S_required].k = "arr"
    THEN {x.v[S_required].v[i].v : i \in 1..Len(x.v[S_required].v)} ELSE {}
EnumMembersOf(x) ==
    IF S_enum \in DOMAIN x.v /\ x.v[S_enum].k = "arr"
    THEN {x.v[S_enum].v[i].v : i \in 1..Len(x.v[S_enum].v)} ELSE {}
TypeOf(x) == IF S_type \in DOMAIN x.v THEN x.v[S_type] ELSE JNull
DeclaresType(x) == TypeOf(x).k = "str" /\ Len(TypeOf(x).v) > 0

StructuralKinds ==
    {"schema type changed", "enum values removed", "required fields removed",
     "response properties removed"}

\* C1: on the cyclic schema Node (Node.properties.next is a $ref to Node) in
\* both documents, schema_breaks(Node, Node, ...) finishes and returns its
\* findings: the call never ends in RecursionError.
C1_CyclicComparisonTerminates ==
    (spc # "call" /\ JEq(base_schema, Node) /\ JEq(curr_schema, Node))
        => spc = "returned"

\* C2: when both resolved schemas declare a non-empty type and the types
\* differ, the call returns exactly the one finding "schema type changed from
\* {base type} to {current type}" at ctx, and nothing from below that pair.
C2_TypeChangeIsTheOnlyFinding ==
    (/\ spc # "call"
     /\ IsDict(ResolvedBase) /\ IsDict(ResolvedCurr)
     /\ DeclaresType(ResolvedBase) /\ DeclaresType(ResolvedCurr)
     /\ TypeOf(ResolvedBase).v # TypeOf(ResolvedCurr).v)
        => /\ spc = "returned"
           /\ out = <<[kind |-> "schema type changed", ctx |-> ctx,
                       detail |-> <<TypeOf(ResolvedBase).v, TypeOf(ResolvedCurr).v>>]>>

\* C2 witness: a type change on a pair whose base has properties and required
\* names the current side lacks, so that a descent would have reported them.
C2_Witness ==
    /\ spc = "returned"
    /\ IsDict(ResolvedBase) /\ IsDict(ResolvedCurr)
    /\ DeclaresType(ResolvedBase) /\ DeclaresType(ResolvedCurr)
    /\ TypeOf(ResolvedBase).v # TypeOf(ResolvedCurr).v
    /\ PropertyNamesOf(ResolvedBase) \ PropertyNamesOf(ResolvedCurr) # {}
    /\ RequiredNamesOf(ResolvedBase) \ RequiredNamesOf(ResolvedCurr) # {}
    /\ Len(out) = 1

\* C3: comparing a schema with itself under one document returns the empty
\* list.
C3_SelfComparisonIsSilent ==
    (spc # "call" /\ JEq(base_schema, curr_schema) /\ JEq(base_doc, curr_doc))
        => (spc = "returned" /\ out = <<>>)

\* A "$ref" of the form "#/..." whose pointer has a missing segment or walks
\* through a value that is not an object.
Unresolvable(schema, doc) ==
    /\ IsDict(schema)
    /\ HasLocalRef(schema)
    /\ ~Walk(doc, RefTokens(Get(schema, S_ref).v)).ok

\* C4: when the base or the current schema is an unresolvable "$ref", the call
\* returns and no structural finding is in its result, whatever the other
\* side is.
C4_UnresolvablePointerIsOpaque ==
    (/\ spc # "call"
     /\ (Unresolvable(base_schema, base_doc) \/ Unresolvable(curr_schema, curr_doc)))
        => /\ spc = "returned"
           /\ \A i \in 1..Len(out) : out[i].kind \notin StructuralKinds

\* C5: when the base or the current schema, given directly or reached through
\* a "$ref", is not an object, the call returns the empty list.
C5_IncomparableNodeIsSilent ==
    (/\ spc # "call"
     /\ (\/ ~IsDict(base_schema) \/ ~IsDict(curr_schema)
         \/ ~IsDict(ResolvedBase) \/ ~IsDict(ResolvedCurr)))
        => (spc = "returned" /\ out = <<>>)

\* C7: for an object-like base, when the current properties are a superset of
\* the base properties and both sides have the same required set, the result
\* holds neither "required fields removed" nor "response properties removed"
\* at ctx.
C7_PureAdditionsAreSilent ==
    (/\ spc = "returned"
     /\ IsDict(ResolvedBase) /\ IsDict(ResolvedCurr)
     /\ (TypeOf(ResolvedBase) = JStr(S_object) \/ S_properties \in DOMAIN ResolvedBase.v)
     /\ PropertyNamesOf(ResolvedBase) \subseteq PropertyNamesOf(ResolvedCurr)
     /\ RequiredNamesOf(ResolvedBase) = RequiredNamesOf(ResolvedCurr))
        => \A i \in 1..Len(out) :
               ~(/\ out[i].ctx = ctx
                 /\ out[i].kind \in {"required fields removed", "response properties removed"})

\* C7 witness: the current side adds a property to a base that has one, with
\* the same non-empty required set, and the call has returned.
C7_Witness ==
    /\ spc = "returned"
    /\ IsDict(ResolvedBase) /\ IsDict(ResolvedCurr)
    /\ S_properties \in DOMAIN ResolvedBase.v
    /\ PropertyNamesOf(ResolvedBase) # {}
    /\ PropertyNamesOf(ResolvedBase) \subseteq PropertyNamesOf(ResolvedCurr)
    /\ PropertyNamesOf(ResolvedBase) # PropertyNamesOf(ResolvedCurr)
    /\ RequiredNamesOf(ResolvedBase) # {}
    /\ RequiredNamesOf(ResolvedBase) = RequiredNamesOf(ResolvedCurr)

\* Where a finding of the result sits relative to the call's ctx: 0 the type
\* change at ctx, 1 the enum finding at ctx, 2 required at ctx, 3 properties at
\* ctx, 4 below "{ctx}.{property}", 5 below "{ctx}[]".
Rank(f) ==
    CASE f.ctx = ctx /\ f.kind = "schema type changed" -> 0
      [] f.ctx = ctx /\ f.kind = "enum values removed" -> 1
      [] f.ctx = ctx /\ f.kind = "required fields removed" -> 2
      [] f.ctx = ctx /\ f.kind = "response properties removed" -> 3
      [] StartsWith(f.ctx, ctx \o <<".">>) -> 4
      [] StartsWith(f.ctx, ctx \o <<"[", "]">>) -> 5
      [] OTHER -> 9

\* The leading name of s, up to the next "." or "[".
RECURSIVE LeadingName(_)
LeadingName(s) ==
    IF Len(s) = 0 \/ Head(s) \in {".", "["} THEN <<>>
    ELSE <<Head(s)>> \o LeadingName(Tail(s))

\* The property a finding of rank 4 lies under.
PropertyOf(f) == LeadingName(SubSeq(f.ctx, Len(ctx) + 2, Len(f.ctx)))

FindingsUnder(p) ==
    LET Under(f) == Rank(f) = 4 /\ PropertyOf(f) = p
    IN  SelectSeq(out, Under)
FindingsOfItems ==
    LET Under(f) == Rank(f) = 5
    IN  SelectSeq(out, Under)

StoppedAtTypeChange == Len(out) > 0 /\ Rank(out[1]) = 0

\* C10: in the result of a call that does not stop at a type change the
\* findings come in the order enum, required, properties removed (at most one
\* of each, at ctx), then the findings of each shared property in sorted
\* property order, then those of the items; the part below each shared
\* property and below the items is the result of the recursive call; and an
\* enum finding does not keep the required and properties findings that are
\* due from being reported.
C10_FindingsInFixedOrder ==
    (/\ spc = "returned"
     /\ IsDict(ResolvedBase) /\ IsDict(ResolvedCurr)
     /\ ~StoppedAtTypeChange)
        => /\ \A i \in 1..Len(out) : Rank(out[i]) \in 1..5
           /\ \A i, j \in 1..Len(out) :
                  i < j =>
                      /\ Rank(out[i]) <= Rank(out[j])
                      /\ Rank(out[i]) = Rank(out[j]) => Rank(out[i]) >= 4
                      /\ (Rank(out[i]) = 4 /\ Rank(out[j]) = 4) =>
                             \/ PropertyOf(out[i]) = PropertyOf(out[j])
                             \/ StrLess(PropertyOf(out[i]), PropertyOf(out[j]))
           /\ (TypeOf(ResolvedBase) = JStr(S_object) \/ S_properties \in DOMAIN ResolvedBase.v) =>
                  /\ (RequiredNamesOf(ResolvedBase) \ RequiredNamesOf(ResolvedCurr) # {})
                         <=> (\E i \in 1..Len(out) : Rank(out[i]) = 2)
                  /\ (PropertyNamesOf(ResolvedBase) \ PropertyNamesOf(ResolvedCurr) # {})
                         <=> (\E i \in 1..Len(out) : Rank(out[i]) = 3)
                  /\ \A p \in PropertyNamesOf(ResolvedBase) \cap PropertyNamesOf(ResolvedCurr) :
                         FindingsUnder(p) =
                             schema_breaks(ResolvedBase.v[S_properties].v[p],
                                           ResolvedCurr.v[S_properties].v[p],
                                           base_doc, curr_doc, ctx \o <<".">> \o p, 2).out
           /\ (TypeOf(ResolvedBase) = JStr(S_array) /\ TypeOf(ResolvedCurr) = JStr(S_array)) =>
                  FindingsOfItems =
                      schema_breaks(OrDict(Get(ResolvedBase, S_items)),
                                    OrDict(Get(ResolvedCurr, S_items)),
                                    base_doc, curr_doc, ctx \o <<"[", "]">>, 2).out
           /\ (EnumMembersOf(ResolvedBase) \ EnumMembersOf(ResolvedCurr) # {}
                   /\ S_enum \in DOMAIN ResolvedCurr.v)
                  <=> (\E i \in 1..Len(out) : Rank(out[i]) = 1)

\* C10 witness: one result that holds an enum finding, a required finding, a
\* properties finding, findings below two different properties and findings
\* below the items.
C10_Witness ==
    /\ spc = "returned"
    /\ IsDict(ResolvedBase) /\ IsDict(ResolvedCurr)
    /\ \A r \in 1..5 : \E i \in 1..Len(out) : Rank(out[i]) = r
    /\ \E i, j \in 1..Len(out) :
           /\ Rank(out[i]) = 4 /\ Rank(out[j]) = 4
           /\ PropertyOf(out[i]) # PropertyOf(out[j])

(***************************************************************************)
(* required_params and main                                                *)
(***************************************************************************)
S_paths == <<"p", "a", "t", "h", "s">>
S_parameters == <<"p", "a", "r", "a", "m", "e", "t", "e", "r", "s">>
S_in == <<"i", "n">>
S_name == <<"n", "a", "m", "e">>
S_requestBody == <<"r", "e", "q", "u", "e", "s", "t", "B", "o", "d", "y">>
S_responses == <<"r", "e", "s", "p", "o", "n", "s", "e", "s">>
S_content == <<"c", "o", "n", "t", "e", "n", "t">>
S_schema == <<"s", "c", "h", "e", "m", "a">>

\* line 113
http_methods ==
    {<<"g", "e", "t">>,
     <<"p", "o", "s", "t">>,
     <<"p", "u", "t">>,
     <<"p", "a", "t", "c", "h">>,
     <<"d", "e", "l", "e", "t", "e">>,
     <<"o", "p", "t", "i", "o", "n", "s">>,
     <<"h", "e", "a", "d">>,
     <<"t", "r", "a", "c", "e">>}

\* line 88 without "is True": any truthy "required" counts
IsRequiredParamTruthy(p) == IsDict(p) /\ Truthy(Get(p, S_required))

\* line 88: isinstance(p, dict) and p.get("required") is True
IsRequiredParam(p) == IsDict(p) /\ JEq(Get(p, S_required), JBool(TRUE))

\* lines 84-90: the set of (in, name) pairs of the required parameters
required_params(op) ==
    LET params == OrList(Get(op, S_parameters)).v
    IN  {<<Get(params[i], S_in).v, Get(params[i], S_name).v>> :
            i \in {n \in 1..Len(params) : IsRequiredParam(params[n])}}

\* p < q for (in, name) tuples of strings
PairLess(p, q) == StrLess(p[1], q[1]) \/ (p[1] = q[1] /\ StrLess(p[2], q[2]))

\* sorted(S) for a set of (in, name) tuples
RECURSIVE SortedPairs(_)
SortedPairs(S) ==
    IF S = {} THEN <<>>
    ELSE LET m == CHOOSE x \in S : \A y \in S : x = y \/ PairLess(x, y)
         IN  <<m>> \o SortedPairs(S \ {m})

\* "{METHOD} {path}"
OpLabel(method, path) == Upper(method) \o <<" ">> \o path

\* line 106-107: doc.get("paths", {})
PathsOf(doc) == IF S_paths \in Keys(doc) THEN doc.v[S_paths] ELSE EmptyDict

\* line 110 with the operands exchanged
AddedPaths(base_paths, curr_paths) == SortedStrs(Keys(curr_paths) \ Keys(base_paths))

\* line 110: sorted(set(base_paths) - set(curr_paths))
RemovedPaths(base_paths, curr_paths) == SortedStrs(Keys(base_paths) \ Keys(curr_paths))

\* line 114: sorted(set(base_paths) & set(curr_paths))
SharedPaths(base_paths, curr_paths) == SortedStrs(Keys(base_paths) \cap Keys(curr_paths))

\* lines 115-116: the entries of a path-item whose key, lowered, is an HTTP method
OpsOf(path_item) == {key \in Keys(path_item) : Lower(key) \in http_methods}

\* lines 118-119
RemovedOperationFindings(b_item, c_item, path) ==
    LET removed == SortedStrs(OpsOf(b_item) \ OpsOf(c_item))
    IN  [i \in 1..Len(removed) |-> Finding("Removed operation", OpLabel(removed[i], path), <<>>)]

\* line 125 with the base parameters ignored
AllRequiredParams(b, c) == required_params(c)

\* line 125: required_params(c) - required_params(b)
NewRequiredParams(b, c) == required_params(c) \ required_params(b)

\* lines 125-127
ParameterFindings(b, c, method, path) ==
    LET new_required == SortedPairs(NewRequiredParams(b, c))
    IN  [i \in 1..Len(new_required) |->
            Finding("Added required parameter", OpLabel(method, path), new_required[i])]

\* lines 129-132
RequestBodyFindings(b, c, method, path) ==
    LET b_req_required == Truthy(Get(OrDict(Get(b, S_requestBody)), S_required))
        c_req_required == Truthy(Get(OrDict(Get(c, S_requestBody)), S_required))
    IN  IF ~b_req_required /\ c_req_required
        THEN <<Finding("Request body became required", OpLabel(method, path), <<>>)>>
        ELSE <<>>

\* lines 134-135 without the startswith("2") filter
AllCodes(op) == Keys(OrDict(Get(op, S_responses)))

\* lines 134-135: the response codes whose string form starts with "2"
SuccessCodes(op) ==
    {code \in Keys(OrDict(Get(op, S_responses))) : StartsWith(code, <<"2">>)}

\* lines 137-139
RemovedSuccessFindings(b, c, method, path) ==
    LET removed == SortedStrs(SuccessCodes(b) \ SuccessCodes(c))
    IN  [i \in 1..Len(removed) |->
            Finding("Removed success response", OpLabel(method, path), <<removed[i]>>)]

\* lines 142-145: (op.get("responses") or {}).get(code) or {}, and its content
ContentOf(op, code) ==
    OrDict(Get(OrDict(Get(OrDict(Get(op, S_responses)), code)), S_content))

\* lines 154-155: (content.get(mt) or {}).get("schema") or {}
SchemaOf(content, mt) == OrDict(Get(OrDict(Get(content, mt)), S_schema))

\* lines 147-151
RemovedMediaFindings(b_content, c_content, method, path, code) ==
    LET removed_media == SortedStrs(Keys(b_content) \ Keys(c_content))
    IN  [i \in 1..Len(removed_media) |->
            Finding("Removed response media type",
                    OpLabel(method, path) \o <<" ">> \o code, <<removed_media[i]>>)]

\* lines 153-164: the loop over the shared media types, from the i-th on.
\* breaking.extend(schema_breaks(...)) appends nothing when the call raises.
RECURSIVE MediaLoop(_, _, _, _, _)
MediaLoop(mts, i, b_content, c_content, label) ==
    IF i > Len(mts) THEN Returned(<<>>)
    ELSE Then(schema_breaks(SchemaOf(b_content, mts[i]), SchemaOf(c_content, mts[i]),
                            base, current,
                            label \o <<" ", "[">> \o mts[i] \o <<"]">>, 1),
              MediaLoop(mts, i + 1, b_content, c_content, label))

\* lines 141-164: the loop over the success codes on both sides, from the i-th on
RECURSIVE CodesLoop(_, _, _, _, _, _)
CodesLoop(codes, i, b, c, method, path) ==
    IF i > Len(codes) THEN Returned(<<>>)
    ELSE LET b_content == ContentOf(b, codes[i])
             c_content == ContentOf(c, codes[i])
         IN  Then(Then(Returned(RemovedMediaFindings(b_content, c_content, method, path, codes[i])),
                       MediaLoop(SortedStrs(Keys(b_content) \cap Keys(c_content)), 1,
                                 b_content, c_content,
                                 OpLabel(method, path) \o <<" ">> \o codes[i])),
                  CodesLoop(codes, i + 1, b, c, method, path))

\* lines 134-164
ResponseFindings(b, c, method, path) ==
    Then(Returned(RemovedSuccessFindings(b, c, method, path)),
         CodesLoop(SortedStrs(SuccessCodes(b) \cap SuccessCodes(c)), 1, b, c, method, path))

(***************************************************************************)
(* Inputs of main: the two documents.                                      *)
(***************************************************************************)
S_query == <<"q", "u", "e", "r", "y">>
S_header == <<"h", "e", "a", "d", "e", "r">>
S_id == <<"i", "d">>
S_filter == <<"f", "i", "l", "t", "e", "r">>
S_key == <<"k", "e", "y">>
S_get == <<"g", "e", "t">>
S_post == <<"p", "o", "s", "t">>
S_GET == <<"G", "E", "T">>
S_summary == <<"s", "u", "m", "m", "a", "r", "y">>
S_200 == <<"2", "0", "0">>
S_201 == <<"2", "0", "1">>
S_404 == <<"4", "0", "4">>
S_j == <<"j">>
S_path_a == <<"/", "a">>
S_path_b == <<"/", "b">>

Param(loc, name, req) ==
    Dict(<< <<S_in, JStr(loc)>>, <<S_name, JStr(name)>>, <<S_required, req>> >>)

\* The "parameters" of an operation: absent (0) or one of four lists, with
\* optional entries, a repeated entry, an entry that is no object, a
\* "required" that is 1 and an entry without "required".
ParameterList(i) ==
    CASE i = 1 -> <<Param(S_query, S_id, JBool(TRUE))>>
      [] i = 2 -> <<Param(S_query, S_id, JBool(TRUE)), Param(S_query, S_filter, JBool(TRUE))>>
      [] i = 3 -> <<Param(S_query, S_filter, JBool(FALSE)), Param(S_query, S_id, JBool(TRUE)),
                    Param(S_header, S_key, JBool(TRUE)), Param(S_header, S_id, JBool(TRUE))>>
      [] i = 4 -> <<Param(S_query, S_id, JBool(TRUE)), Param(S_query, S_id, JBool(TRUE)),
                    JStr(S_x), Param(S_query, S_filter, JNum(1)),
                    Dict(<< <<S_in, JStr(S_header)>>, <<S_name, JStr(S_key)>> >>)>>

Response(schemas) ==
    Dict(<< <<S_content,
              Dict([i \in 1..Len(schemas) |->
                       <<schemas[i][1], Dict(<< <<S_schema, schemas[i][2]>> >>)>>])>> >>)

\* The "responses" of an operation: absent (0) or one of four maps.  The third
\* answers 200 with the cyclic schema Node.
Responses(i) ==
    CASE i = 1 -> Dict(<< <<S_200, Response(<< <<S_j, StrAB>> >>)>> >>)
      [] i = 2 -> Dict(<< <<S_200, Response(<< <<S_j, StrA>> >>)>>, <<S_404, EmptyDict>> >>)
      [] i = 3 -> Dict(<< <<S_200, Response(<< <<S_j, Rf(<<"N">>)>> >>)>> >>)
      [] i = 4 -> Dict(<< <<S_201, Response(<< <<S_j, ObjectSchema(1, 1, 1, 0)>>,
                                              <<S_x, EmptyDict>> >>)>>,
                          <<S_200, Response(<< <<S_x, Typed(S_integer)>> >>)>>,
                          <<S_404, Response(<< <<S_j, StrAB>> >>)>> >>)

\* An operation: pl selects the parameters, rb the requestBody (0 absent,
\* 1 required, 2 not required), rs the responses.
Operation(pl, rb, rs) ==
    Dict(  (IF pl > 0 THEN << <<S_parameters, JArr(ParameterList(pl))>> >> ELSE <<>>)
        \o (IF rb > 0 THEN << <<S_requestBody, Dict(<< <<S_required, JBool(rb = 1)>> >>)>> >>
            ELSE <<>>)
        \o (IF rs > 0 THEN << <<S_responses, Responses(rs)>> >> ELSE <<>>))

\* Path-items.  No path-item holds one method under two letter cases, so the
\* "{METHOD} {path}" of a finding names one operation of its document.
PathItemsA ==
    {Dict(<< <<S_get, Operation(0, 0, 0)>> >>),
     Dict(<< <<S_get, Operation(1, 0, 1)>> >>),
     Dict(<< <<S_get, Operation(2, 1, 2)>> >>),
     Dict(<< <<S_get, Operation(3, 2, 1)>> >>),
     Dict(<< <<S_get, Operation(4, 0, 4)>> >>),
     Dict(<< <<S_get, Operation(0, 1, 3)>> >>),
     Dict(<< <<S_get, Operation(1, 2, 2)>> >>),
     Dict(<< <<S_get, Operation(2, 0, 4)>> >>),
     Dict(<< <<S_get, Operation(3, 1, 0)>> >>),
     Dict(<< <<S_get, Operation(1, 0, 1)>>, <<S_post, Operation(2, 1, 2)>> >>),
     Dict(<< <<S_post, Operation(3, 2, 1)>>, <<S_get, Operation(2, 1, 2)>> >>),
     Dict(<< <<S_GET, Operation(1, 0, 1)>>, <<S_summary, JStr(S_x)>> >>),
     Dict(<< <<S_post, Operation(0, 1, 3)>>, <<S_summary, JStr(S_y)>> >>)}

PathItemsB ==
    {Dict(<< <<S_get, Operation(1, 0, 1)>> >>),
     Dict(<< <<S_get, Operation(2, 1, 2)>>, <<S_post, Operation(4, 0, 4)>> >>),
     Dict(<< <<S_post, Operation(1, 0, 1)>>, <<S_summary, JStr(S_x)>> >>)}

\* A document: "paths" with "/a" and "/b" each absent or a path-item, and the
\* schemas under "d" that pointers reach.
Document(a, b) ==
    Dict(<< <<S_paths, Dict(  (IF a = JNull THEN <<>> ELSE << <<S_path_a, a>> >>)
                           \o (IF b = JNull THEN <<>> ELSE << <<S_path_b, b>> >>))>>,
            <<S_d, CompsA>> >>)

MainDocs ==
    {Document(a, b) : a \in PathItemsA \cup {JNull}, b \in PathItemsB \cup {JNull}}

(***************************************************************************)
(* main: one run of the program.                                           *)
(***************************************************************************)
SchemaIdle ==
    /\ base_schema = JNull /\ curr_schema = JNull /\ base_doc = JNull /\ curr_doc = JNull
    /\ ctx = <<>> /\ out = <<>> /\ spc = "idle"

\* argc is len(sys.argv); nothing is loaded or compared yet.
Init ==
    /\ argc \in 1..4
    /\ base = JNull /\ current = JNull
    /\ breaking = <<>> /\ todo = <<>> /\ ops = <<>>
    /\ pc = "start" /\ exc = "none" /\ exit_code = -1
    /\ SchemaIdle /\ ResolveIdle /\ RotationIdle

\* lines 99-101: wrong number of arguments
Usage ==
    /\ pc = "start" /\ argc # 3
    /\ pc' = "exited" /\ exit_code' = 2
    /\ UNCHANGED <<argc, base, current, breaking, todo, ops, exc>>
    /\ UNCHANGED <<schemaVars, resolveVars, rotationVars>>

\* lines 103-104: both files hold JSON documents
Load ==
    /\ pc = "start" /\ argc = 3
    /\ \E b \in MainDocs, c \in MainDocs : base' = b /\ current' = c
    /\ pc' = "loaded"
    /\ UNCHANGED <<argc, breaking, todo, ops, exc, exit_code>>
    /\ UNCHANGED <<schemaVars, resolveVars, rotationVars>>

\* lines 93-95: open or json.load raises; the interpreter exits with status 1
LoadFails ==
    /\ pc = "start" /\ argc = 3
    /\ pc' = "exited" /\ exc' = "load" /\ exit_code' = 1
    /\ UNCHANGED <<argc, base, current, breaking, todo, ops>>
    /\ UNCHANGED <<schemaVars, resolveVars, rotationVars>>

\* lines 106-111
RemovedPathsStep ==
    /\ pc = "loaded"
    /\ LET removed == RemovedPaths(PathsOf(base), PathsOf(current))
       IN  breaking' = [i \in 1..Len(removed) |-> Finding("Removed path", removed[i], <<>>)]
    /\ todo' = SharedPaths(PathsOf(base), PathsOf(current))
    /\ pc' = "paths"
    /\ UNCHANGED <<argc, base, current, ops, exc, exit_code>>
    /\ UNCHANGED <<schemaVars, resolveVars, rotationVars>>

\* lines 114-119, for the next shared path
RemovedOperations ==
    /\ pc = "paths" /\ Len(todo) > 0
    /\ LET path == Head(todo)
           b_item == PathsOf(base).v[path]
           c_item == PathsOf(current).v[path]
       IN  /\ breaking' = breaking \o RemovedOperationFindings(b_item, c_item, path)
           /\ ops' = SortedStrs(OpsOf(b_item) \cap OpsOf(c_item))
    /\ pc' = "operations"
    /\ UNCHANGED <<argc, base, current, todo, exc, exit_code>>
    /\ UNCHANGED <<schemaVars, resolveVars, rotationVars>>

\* lines 121-132, for the next shared method of the path
CompareParameters ==
    /\ pc = "operations" /\ Len(ops) > 0
    /\ LET path == Head(todo)
           method == Head(ops)
           b == PathsOf(base).v[path].v[method]
           c == PathsOf(current).v[path].v[method]
       IN  breaking' = breaking \o ParameterFindings(b, c, method, path)
                                \o RequestBodyFindings(b, c, method, path)
    /\ pc' = "responses"
    /\ UNCHANGED <<argc, base, current, todo, ops, exc, exit_code>>
    /\ UNCHANGED <<schemaVars, resolveVars, rotationVars>>

\* lines 134-164, for the same method
CompareResponses ==
    /\ pc = "responses"
    /\ LET path == Head(todo)
           method == Head(ops)
           r == ResponseFindings(PathsOf(base).v[path].v[method],
                                 PathsOf(current).v[path].v[method], method, path)
       IN  /\ ~r.raised
           /\ breaking' = breaking \o r.out
    /\ ops' = Tail(ops)
    /\ pc' = "operations"
    /\ UNCHANGED <<argc, base, current, todo, exc, exit_code>>
    /\ UNCHANGED <<schemaVars, resolveVars, rotationVars>>

\* lines 134-164 when a schema_breaks call ends in RecursionError: nothing is
\* printed but the traceback, and the interpreter exits with status 1
CompareResponsesRaises ==
    /\ pc = "responses"
    /\ LET path == Head(todo)
           method == Head(ops)
           r == ResponseFindings(PathsOf(base).v[path].v[method],
                                 PathsOf(current).v[path].v[method], method, path)
       IN  /\ r.raised
           /\ breaking' = breaking \o r.out
    /\ pc' = "exited" /\ exc' = "RecursionError" /\ exit_code' = 1
    /\ UNCHANGED <<argc, base, current, todo, ops>>
    /\ UNCHANGED <<schemaVars, resolveVars, rotationVars>>

\* line 114: the methods of the path are done, on to the next shared path
NextPath ==
    /\ pc = "operations" /\ Len(ops) = 0
    /\ todo' = Tail(todo)
    /\ pc' = "paths"
    /\ UNCHANGED <<argc, base, current, breaking, ops, exc, exit_code>>
    /\ UNCHANGED <<schemaVars, resolveVars, rotationVars>>

\* lines 166-173
Report ==
    /\ pc = "paths" /\ Len(todo) = 0
    /\ exit_code' = IF Len(breaking) > 0 THEN 1 ELSE 0
    /\ pc' = "exited"
    /\ UNCHANGED <<argc, base, current, breaking, todo, ops, exc>>
    /\ UNCHANGED <<schemaVars, resolveVars, rotationVars>>

Next ==
    \/ Usage \/ Load \/ LoadFails \/ RemovedPathsStep \/ RemovedOperations
    \/ CompareParameters \/ CompareResponses \/ CompareResponsesRaises
    \/ NextPath \/ Report

Spec == Init /\ [][Next]_vars

(***************************************************************************)
(* Properties of main, checked under Spec.                                 *)
(***************************************************************************)
\* Both documents are loaded and lines 106-111 have run.
PathsCompared ==
    \/ pc \in {"paths", "operations", "responses"}
    \/ pc = "exited" /\ argc = 3 /\ exc # "load"

\* The path a finding names: all of "Removed path: {path}", and the second
\* word of "{METHOD} {path}..." in every other finding.
PathNamedBy(f) ==
    IF f.kind = "Removed path" THEN f.ctx ELSE Split(f.ctx, " ")[2]

BasePathNames == IF S_paths \in DOMAIN base.v THEN DOMAIN base.v[S_paths].v ELSE {}
CurrPathNames == IF S_paths \in DOMAIN current.v THEN DOMAIN current.v[S_paths].v ELSE {}

\* C6: for every path of base that current lacks, the findings hold exactly
\* one "Removed path: {path}" and no other finding that names the path.
C6_RemovedPathReportedOnce ==
    PathsCompared =>
        \A p \in BasePathNames \ CurrPathNames :
            /\ Cardinality({i \in 1..Len(breaking) :
                               breaking[i].kind = "Removed path" /\ breaking[i].ctx = p}) = 1
            /\ \A i \in 1..Len(breaking) :
                   PathNamedBy(breaking[i]) = p => breaking[i].kind = "Removed path"

\* C6 witness: the run has reported; the removed path held two operations in
\* base and the findings hold more than the one for the removed path.
C6_Witness ==
    /\ pc = "exited" /\ exc = "none" /\ argc = 3
    /\ \E p \in BasePathNames \ CurrPathNames :
           /\ Cardinality({key \in DOMAIN base.v[S_paths].v[p].v :
                              key \in {S_get, S_post}}) = 2
           /\ \E i \in 1..Len(breaking) : breaking[i] = Finding("Removed path", p, <<>>)
    /\ Len(breaking) > 2

\* The (in, name) pairs of the entries of op["parameters"] whose "required" is
\* the JSON value true, read off the document.
RequiredPairsOf(op) ==
    IF S_parameters \in DOMAIN op.v /\ op.v[S_parameters].k = "arr"
    THEN LET ps == op.v[S_parameters].v
         IN  {<<ps[i].v[S_in].v, ps[i].v[S_name].v>> :
                 i \in {n \in 1..Len(ps) :
                           /\ ps[n].k = "obj"
                           /\ S_required \in DOMAIN ps[n].v
                           /\ ps[n].v[S_required] = JBool(TRUE)}}
    ELSE {}

\* The method keys of a path-item.
MethodKeysOf(item) == {key \in DOMAIN item.v : key \in {S_get, S_post, S_GET}}

\* Lines 125-132 have run for the operation (p, m) of both documents.
ParametersCompared(p, m) ==
    /\ PathsCompared
    /\ p \in BasePathNames \cap CurrPathNames
    /\ m \in MethodKeysOf(base.v[S_paths].v[p]) \cap MethodKeysOf(current.v[S_paths].v[p])
    /\ \/ p \notin SetOf(todo)
       \/ /\ p = Head(todo)
          /\ \/ pc = "paths" /\ FALSE
             \/ pc = "operations" /\ m \notin SetOf(ops)
             \/ pc \in {"responses", "exited"} /\ (m \notin SetOf(ops) \/ m = Head(ops))

\* The "Added required parameter" findings of the operation, in their order.
AddedParameterFindings(p, m) ==
    LET Mine(f) == f.kind = "Added required parameter" /\ f.ctx = Upper(m) \o <<" ">> \o p
    IN  SelectSeq(breaking, Mine)

\* C8: for an operation of both documents, the "Added required parameter"
\* findings are one for each (in, name) that is required in current and not
\* required in base, in sorted order, and none for any other parameter; and
\* no such finding exists for anything but an operation of both documents.
C8_AddedRequiredParameters ==
    /\ \A p \in {S_path_a, S_path_b}, m \in {S_get, S_post, S_GET} :
           IF ParametersCompared(p, m)
           THEN LET fs == AddedParameterFindings(p, m)
                    added == RequiredPairsOf(current.v[S_paths].v[p].v[m])
                                 \ RequiredPairsOf(base.v[S_paths].v[p].v[m])
                IN  /\ {fs[i].detail : i \in 1..Len(fs)} = added
                    /\ Len(fs) = Cardinality(added)
                    /\ \A i \in 1..(Len(fs) - 1) : PairLess(fs[i].detail, fs[i + 1].detail)
           ELSE TRUE
    /\ \A i \in 1..Len(breaking) :
           breaking[i].kind = "Added required parameter" =>
               \E p \in {S_path_a, S_path_b}, m \in {S_get, S_post, S_GET} :
                   ParametersCompared(p, m) /\ breaking[i].ctx = Upper(m) \o <<" ">> \o p

\* C8 witness: an operation of both documents for which current adds two
\* required parameters, keeps one that base already requires and has an
\* optional one; the run has reported and holds the two findings.
C8_Witness ==
    /\ pc = "exited" /\ exc = "none" /\ argc = 3
    /\ ParametersCompared(S_path_a, S_get)
    /\ LET b == base.v[S_paths].v[S_path_a].v[S_get]
           c == current.v[S_paths].v[S_path_a].v[S_get]
       IN  /\ Cardinality(RequiredPairsOf(c) \ RequiredPairsOf(b)) = 2
           /\ RequiredPairsOf(c) \cap RequiredPairsOf(b) # {}
           /\ Len(c.v[S_parameters].v) > Cardinality(RequiredPairsOf(c))
    /\ Len(AddedParameterFindings(S_path_a, S_get)) = 2

\* C9: with two arguments that load, the exit code is 1 exactly when the list
\* of findings is non-empty and 0 exactly when it is empty; with any other
\* number of arguments the exit code is 2 and nothing was loaded or compared.
C9_VerdictFollowsFindings ==
    pc = "exited" =>
        /\ (argc = 3 /\ exc # "load") =>
               /\ exit_code = 1 <=> Len(breaking) > 0
               /\ exit_code = 0 <=> Len(breaking) = 0
        /\ argc # 3 =>
               /\ exit_code = 2
               /\ base = JNull /\ current = JNull /\ breaking = <<>>

\* lines 115-119 have run for the path p of both documents.
OperationsCompared(p) ==
    /\ PathsCompared
    /\ p \in BasePathNames \cap CurrPathNames
    /\ \/ p \notin SetOf(todo)
       \/ p = Head(todo) /\ pc # "paths"

\* The methods a path-item declares, whatever the letter case of its keys.
MethodsDeclared(item) ==
    {Lower(key) : key \in {k \in DOMAIN item.v : Lower(k) \in http_methods}}

\* The "Removed operation" findings that name the path p.
RemovedOperationsOf(p) ==
    {i \in 1..Len(breaking) :
        breaking[i].kind = "Removed operation" /\ Split(breaking[i].ctx, " ")[2] = p}

\* C11: for a path of both documents, the "Removed operation" findings are
\* one for each method that the base path-item declares and the current
\* path-item does not declare under any letter case, and none for a method
\* the current path-item declares; and every finding that names the path
\* names a method of the vocabulary.
C11_RemovedOperationsByMethod ==
    \A p \in {S_path_a, S_path_b} :
        OperationsCompared(p) =>
            LET removed == MethodsDeclared(base.v[S_paths].v[p])
                               \ MethodsDeclared(current.v[S_paths].v[p])
                found == RemovedOperationsOf(p)
            IN  /\ {Lower(Split(breaking[i].ctx, " ")[1]) : i \in found} = removed
                /\ Cardinality(found) = Cardinality(removed)
                /\ \A i \in 1..Len(breaking) :
                       (breaking[i].kind # "Removed path" /\ PathNamedBy(breaking[i]) = p)
                           => Lower(Split(breaking[i].ctx, " ")[1]) \in http_methods

\* Lines 134-164 have run to their end for the operation (p, m) of both
\* documents.
ResponsesCompared(p, m) ==
    /\ OperationsCompared(p)
    /\ m \in MethodKeysOf(base.v[S_paths].v[p]) \cap MethodKeysOf(current.v[S_paths].v[p])
    /\ \/ p \notin SetOf(todo)
       \/ m \notin SetOf(ops)

\* The keys of op["responses"], read off the document.
ResponseCodesOf(op) ==
    IF S_responses \in DOMAIN op.v THEN DOMAIN op.v[S_responses].v ELSE {}

\* A status code whose string form starts with "2".
IsSuccessCode(code) == Len(code) > 0 /\ code[1] = "2"

\* The "Removed success response" findings of the operation, in their order.
RemovedSuccessOf(p, m) ==
    LET Mine(f) == f.kind = "Removed success response" /\ f.ctx = Upper(m) \o <<" ">> \o p
    IN  SelectSeq(breaking, Mine)

\* C12: for an operation of both documents, the "Removed success response"
\* findings are one for each code that starts with "2" and is a key of the
\* base responses and not of the current responses, and none for any other
\* code; and every finding about a media type or a schema names a code that
\* starts with "2" and is a key of the responses on both sides.
C12_OnlySuccessResponsesCount ==
    /\ \A p \in {S_path_a, S_path_b}, m \in {S_get, S_post, S_GET} :
           ResponsesCompared(p, m) =>
               LET fs == RemovedSuccessOf(p, m)
                   b_codes == ResponseCodesOf(base.v[S_paths].v[p].v[m])
                   c_codes == ResponseCodesOf(current.v[S_paths].v[p].v[m])
                   removed == {code \in b_codes \ c_codes : IsSuccessCode(code)}
               IN  /\ {fs[i].detail[1] : i \in 1..Len(fs)} = removed
                   /\ Len(fs) = Cardinality(removed)
    /\ \A i \in 1..Len(breaking) :
           breaking[i].kind \in StructuralKinds \cup {"Removed response media type"} =>
               LET words == Split(breaking[i].ctx, " ")
               IN  \E m \in {S_get, S_post, S_GET} :
                       /\ Upper(m) = words[1]
                       /\ OperationsCompared(words[2])
                       /\ m \in MethodKeysOf(base.v[S_paths].v[words[2]])
                       /\ m \in MethodKeysOf(current.v[S_paths].v[words[2]])
                       /\ IsSuccessCode(words[3])
                       /\ words[3] \in ResponseCodesOf(base.v[S_paths].v[words[2]].v[m])
                       /\ words[3] \in ResponseCodesOf(current.v[S_paths].v[words[2]].v[m])

\* C12 witness: the run has reported; for GET /a current drops 201 and 404 and
\* keeps 200, and the findings hold the one for 201 and one about code 200.
C12_Witness ==
    /\ pc = "exited" /\ exc = "none" /\ argc = 3
    /\ ResponsesCompared(S_path_a, S_get)
    /\ LET b_codes == ResponseCodesOf(base.v[S_paths].v[S_path_a].v[S_get])
           c_codes == ResponseCodesOf(current.v[S_paths].v[S_path_a].v[S_get])
       IN  /\ {S_201, S_404} \subseteq b_codes \ c_codes
           /\ S_200 \in b_codes \cap c_codes
    /\ Len(RemovedSuccessOf(S_path_a, S_get)) = 1
    /\ \E i \in 1..Len(breaking) :
           /\ breaking[i].kind = "Removed response media type"
           /\ Split(breaking[i].ctx, " ")[3] = S_200

(***************************************************************************)
(* resolve_ref, frame by frame: one call resolve_ref(rr_schema, rr_doc).   *)
(* rr_node is the schema argument of the innermost frame, rr_seen the set  *)
(* that the frames share, rr_calls the number of frames entered below the  *)
(* first.  Every frame returns what the frame below it returns (line 21).  *)
(***************************************************************************)
InitResolve ==
    /\ rr_schema \in SchemaInputs
    /\ rr_doc \in SchemaDocs
    /\ rr_node = rr_schema
    /\ rr_seen = {}
    /\ rr_calls = 0
    /\ rr_result = JNull
    /\ rr_pc = "call"
    /\ SchemaIdle /\ MainIdle /\ RotationIdle

\* lines 13-14 with the test dropped
NeverSeen(ref, seen) == FALSE

\* lines 13-14: ref in seen
AlreadySeen(ref, seen) == ref \in seen

\* lines 7-11: the node is no dict, or its "$ref" is no local pointer
ResolveNoPointer ==
    /\ rr_pc = "call"
    /\ ~(IsDict(rr_node) /\ HasLocalRef(rr_node))
    /\ rr_result' = rr_node
    /\ rr_pc' = "returned"
    /\ UNCHANGED <<rr_schema, rr_doc, rr_node, rr_seen, rr_calls>>
    /\ UNCHANGED <<schemaVars, mainVars, rotationVars>>

\* lines 12-14: the pointer was followed before in this resolution
ResolveSeen ==
    /\ rr_pc = "call"
    /\ IsDict(rr_node) /\ HasLocalRef(rr_node)
    /\ AlreadySeen(Get(rr_node, S_ref).v, rr_seen)
    /\ rr_result' = rr_node
    /\ rr_pc' = "returned"
    /\ UNCHANGED <<rr_schema, rr_doc, rr_node, rr_seen, rr_calls>>
    /\ UNCHANGED <<schemaVars, mainVars, rotationVars>>

\* lines 15-20: the walk along the pointer fails
ResolveMissing ==
    /\ rr_pc = "call"
    /\ IsDict(rr_node) /\ HasLocalRef(rr_node)
    /\ LET ref == Get(rr_node, S_ref).v
       IN  /\ ~AlreadySeen(ref, rr_seen)
           /\ ~Walk(rr_doc, RefTokens(ref)).ok
           /\ rr_seen' = rr_seen \cup {ref}
    /\ rr_result' = rr_node
    /\ rr_pc' = "returned"
    /\ UNCHANGED <<rr_schema, rr_doc, rr_node, rr_calls>>
    /\ UNCHANGED <<schemaVars, mainVars, rotationVars>>

\* lines 15-21: the walk reaches a node and resolve_ref is called on it
ResolveFollows ==
    /\ rr_pc = "call"
    /\ IsDict(rr_node) /\ HasLocalRef(rr_node)
    /\ LET ref == Get(rr_node, S_ref).v
           w == Walk(rr_doc, RefTokens(ref))
       IN  /\ ~AlreadySeen(ref, rr_seen)
           /\ w.ok
           /\ rr_seen' = rr_seen \cup {ref}
           /\ rr_node' = w.node
    /\ rr_calls' = rr_calls + 1
    /\ UNCHANGED <<rr_schema, rr_doc, rr_result, rr_pc>>
    /\ UNCHANGED <<schemaVars, mainVars, rotationVars>>

NextResolve == ResolveNoPointer \/ ResolveSeen \/ ResolveMissing \/ ResolveFollows

SpecResolve == InitResolve /\ [][NextResolve]_vars

(***************************************************************************)
(* Properties of resolve_ref, checked under SpecResolve.                   *)
(***************************************************************************)
\* The node is an object with a "$ref" key.
CarriesRef(n) == n.k = "obj" /\ S_ref \in DOMAIN n.v

\* The node is an object whose "$ref" is a pointer into the document that
\* leads to a node of the document.
Followable(n, d) ==
    /\ CarriesRef(n)
    /\ n.v[S_ref].k = "str"
    /\ Len(n.v[S_ref].v) >= 2 /\ SubSeq(n.v[S_ref].v, 1, 2) = <<"#", "/">>
    /\ Walk(d, RefTokens(n.v[S_ref].v)).ok

\* The node that i hops along the pointers lead to, starting from n; ok is
\* FALSE when a node on the way has no pointer to follow.
RECURSIVE NthNode(_, _, _)
NthNode(n, d, i) ==
    IF i = 0 THEN [ok |-> TRUE, node |-> n]
    ELSE IF ~Followable(n, d) THEN [ok |-> FALSE, node |-> n]
    ELSE NthNode(Walk(d, RefTokens(n.v[S_ref].v)).node, d, i - 1)

\* Every string that is the "$ref" of some object inside x.
RECURSIVE RefsIn(_)
RefsIn(x) ==
    IF x.k = "obj"
    THEN (IF CarriesRef(x) /\ x.v[S_ref].k = "str" THEN {x.v[S_ref].v} ELSE {})
             \cup UNION {RefsIn(x.v[key]) : key \in DOMAIN x.v}
    ELSE IF x.k = "arr" THEN UNION {RefsIn(x.v[i]) : i \in 1..Len(x.v)}
    ELSE {}

\* No chain of distinct pointers is longer than this.
MaxHops == Cardinality(RefsIn(rr_doc) \cup RefsIn(rr_schema))

\* The chain from rr_schema comes back to a pointer it has followed.
Revisits ==
    \E i \in 0..MaxHops, j \in 1..MaxHops :
        /\ i < j
        /\ NthNode(rr_schema, rr_doc, j).ok
        /\ Followable(NthNode(rr_schema, rr_doc, j).node, rr_doc)
        /\ NthNode(rr_schema, rr_doc, i).node.v[S_ref]
               = NthNode(rr_schema, rr_doc, j).node.v[S_ref]

\* What holds in every state of a resolution.
ResolveRefState ==
    /\ rr_pc \in {"call", "returned"}
    /\ rr_seen \subseteq RefsIn(rr_doc) \cup RefsIn(rr_schema)
    /\ rr_calls <= Cardinality(rr_seen)
    /\ rr_pc = "call" => ENABLED NextResolve
    /\ rr_pc = "returned" =>
           /\ \A j \in 0..MaxHops :
                  LET reached == NthNode(rr_schema, rr_doc, j)
                  IN  (reached.ok /\ ~CarriesRef(reached.node)) => rr_result = reached.node
           /\ Revisits => CarriesRef(rr_result)

\* What holds of every step of a resolution.
ResolveRefStep ==
    /\ rr_pc' = "returned" \/ rr_calls' = rr_calls + 1
    /\ rr_schema' = rr_schema
    /\ rr_doc' = rr_doc

\* C13: a resolution ends, since each frame returns or follows a pointer not
\* followed before and the document holds finitely many; it returns the first
\* node on the chain that has no "$ref"; when the chain comes back to a pointer
\* already followed it returns a node that has a "$ref"; and no step changes
\* the node or the document.
C13_ResolveRefIsSafeOnCycles == []ResolveRefState /\ [][ResolveRefStep]_vars

\* C13 witness: the resolution of {"$ref": "#/d/A"} has returned, where A
\* points to B and B points to A: two pointers were followed and the node
\* returned is B's, which points to A.
C13_Witness ==
    /\ rr_pc = "returned"
    /\ rr_schema = Rf(<<"A">>)
    /\ Revisits
    /\ rr_calls = 2
    /\ rr_result = Rf(<<"A">>)
    /\ rr_result = rr_doc.v[S_d].v[<<"B">>]

(***************************************************************************)
(* lambda_handler of db_password_rotation.  VersionIdsToStages and         *)
(* RotationEnabled are what describe_secret returns, SecretString the      *)
(* value stored under each version that has one, MasterUserPassword the    *)
(* password of the RDS cluster, deployments the deployments forced on the  *)
(* ECS service, environ the environment variables that are set.  An       *)
(* action is one invocation: event is its payload and outcome is           *)
(* "returned" or the exception that ends it.                               *)
(***************************************************************************)
\* lines 44-47, 50-51, 54-56
STEP_CREATE_SECRET == "createSecret"
STEP_SET_SECRET == "setSecret"
STEP_TEST_SECRET == "testSecret"
STEP_FINISH_SECRET == "finishSecret"
VERSION_STAGE_PENDING == "AWSPENDING"
VERSION_STAGE_CURRENT == "AWSCURRENT"
ENV_RDS_CLUSTER_IDENTIFIER == "RDS_CLUSTER_IDENTIFIER"
ENV_ECS_CLUSTER == "ECS_CLUSTER"
ENV_ECS_SERVICE == "ECS_SERVICE"

\* The label that Secrets Manager itself moves when AWSCURRENT moves.
VERSION_STAGE_PREVIOUS == "AWSPREVIOUS"

\* line 105 with the test dropped
TokenNeverCurrent(stages) == FALSE

\* line 105: VERSION_STAGE_CURRENT in stages
TokenIsCurrent(stages) == VERSION_STAGE_CURRENT \in stages

\* lines 94-113: "ValueError", "None" (the early return) or "stages"
validate_token_stages(versions, token) ==
    IF token \notin DOMAIN versions THEN "ValueError"
    ELSE IF TokenIsCurrent(versions[token]) THEN "None"
    ELSE IF VERSION_STAGE_PENDING \notin versions[token] THEN "ValueError"
    ELSE "stages"

\* Secrets Manager: the label is attached to the version, which is listed from
\* then on.
AttachStage(versions, version_id, stage) ==
    IF version_id \in DOMAIN versions
    THEN [versions EXCEPT ![version_id] = @ \cup {stage}]
    ELSE [v \in DOMAIN versions \cup {version_id} |->
             IF v = version_id THEN {stage} ELSE versions[v]]

\* Secrets Manager: the label is on no version.
DetachStage(versions, stage) == [v \in DOMAIN versions |-> versions[v] \ {stage}]

\* Secrets Manager: describe_secret lists the versions that hold a label.
Listed(versions) == [v \in {w \in DOMAIN versions : versions[w] # {}} |-> versions[v]]

\* Secrets Manager, update_secret_version_stage as called on line 216: the
\* label leaves remove_from ("None" when the argument is not passed) and is
\* attached to move_to; AWSPREVIOUS follows to the version that AWSCURRENT
\* left; AWSPENDING stays on move_to or is dropped from it (keep_pending).
update_secret_version_stage(versions, stage, move_to, remove_from, keep_pending) ==
    LET removed == IF remove_from = "None" THEN versions
                   ELSE [versions EXCEPT ![remove_from] = @ \ {stage}]
        moved == AttachStage(removed, move_to, stage)
        previous == IF remove_from = "None" THEN moved
                    ELSE AttachStage(DetachStage(moved, VERSION_STAGE_PREVIOUS),
                                     remove_from, VERSION_STAGE_PREVIOUS)
        pending == IF keep_pending THEN previous
                   ELSE [previous EXCEPT ![move_to] = @ \ {VERSION_STAGE_PENDING}]
    IN  Listed(pending)

\* Secrets Manager, put_secret_value as called on lines 140-145: the version
\* gets its value and the labels of VersionStages, which leave other versions.
put_secret_value(versions, token, stage) ==
    Listed(AttachStage(DetachStage(versions, stage), token, stage))

\* lines 202-206: the versions the loop can stop at, "None" when there is none
CurrentVersions(versions, token) ==
    LET found == {v \in DOMAIN versions :
                     VERSION_STAGE_CURRENT \in versions[v] /\ v # token}
    IN  IF found = {} THEN {"None"} ELSE found

\* lines 225-230: both names are set
EcsConfigured == {ENV_ECS_CLUSTER, ENV_ECS_SERVICE} \subseteq environ

\* The version ids and the steps an invocation can carry; "v9" is no version
\* of the secret and "rotateSecret" is no step.
Tokens == {"v0", "v1", "v2", "v9"}
Steps == {STEP_CREATE_SECRET, STEP_SET_SECRET, STEP_TEST_SECRET, STEP_FINISH_SECRET,
          "rotateSecret"}

\* The secret when the rotation starts: v1 is AWSCURRENT; AWSPENDING is on v2,
\* or on v1 itself; v0 is AWSPREVIOUS or is not listed.
InitialVersions ==
    {[v \in {"v1", "v2"} |->
         IF v = "v1" THEN {VERSION_STAGE_CURRENT} ELSE {VERSION_STAGE_PENDING}],
     [v \in {"v0", "v1", "v2"} |->
         IF v = "v0" THEN {VERSION_STAGE_PREVIOUS}
         ELSE IF v = "v1" THEN {VERSION_STAGE_CURRENT} ELSE {VERSION_STAGE_PENDING}],
     [v \in {"v0", "v1"} |->
         IF v = "v0" THEN {VERSION_STAGE_PREVIOUS}
         ELSE {VERSION_STAGE_CURRENT, VERSION_STAGE_PENDING}]}

\* The passwords secrets.choice can draw on line 137.
NewPasswords == {"g1", "g2"}

\* Every version with AWSCURRENT or AWSPREVIOUS has a value; the version with
\* AWSPENDING has one or has none yet.  The cluster has the current password.
InitRotation ==
    /\ VersionIdsToStages \in InitialVersions
    /\ RotationEnabled \in BOOLEAN
    /\ \E with_value \in {DOMAIN VersionIdsToStages, DOMAIN VersionIdsToStages \ {"v2"}} :
           SecretString = [v \in with_value |-> "p" \o v]
    /\ MasterUserPassword = "pv1"
    /\ deployments = 0
    /\ environ \in SUBSET {ENV_RDS_CLUSTER_IDENTIFIER, ENV_ECS_CLUSTER, ENV_ECS_SERVICE}
    /\ event = [ClientRequestToken |-> "", Step |-> ""]
    /\ outcome = "none"
    /\ SchemaIdle /\ MainIdle /\ ResolveIdle

\* lines 250-252: the payload of the invocation
Invoked(token, step) == event' = [ClientRequestToken |-> token, Step |-> step]

\* lines 255-260 let the invocation through to the dispatch of lines 263-273
Dispatched(token) ==
    /\ RotationEnabled
    /\ validate_token_stages(VersionIdsToStages, token) = "stages"

\* get_secret_value(VersionId=token, VersionStage=AWSPENDING) finds a value
PendingValueExists(token) ==
    /\ token \in DOMAIN SecretString
    /\ token \in DOMAIN VersionIdsToStages
    /\ VERSION_STAGE_PENDING \in VersionIdsToStages[token]

\* A call of Secrets Manager or RDS that the handler does not guard fails
\* before the handler has changed anything (lines 87, 125, 140, 157, 173,
\* 199, 216): the ClientError ends the invocation.
ServiceCallFails(token, step) ==
    /\ Invoked(token, step)
    /\ outcome' = "ClientError"
    /\ UNCHANGED <<VersionIdsToStages, RotationEnabled, SecretString, MasterUserPassword,
                   deployments, environ>>
    /\ UNCHANGED <<schemaVars, mainVars, resolveVars>>

\* lines 87-90
RotationNotEnabled(token, step) ==
    /\ ~RotationEnabled
    /\ Invoked(token, step)
    /\ outcome' = "ValueError"
    /\ UNCHANGED <<VersionIdsToStages, RotationEnabled, SecretString, MasterUserPassword,
                   deployments, environ>>
    /\ UNCHANGED <<schemaVars, mainVars, resolveVars>>

\* lines 100-102 and 109-111
TokenRejected(token, step) ==
    /\ RotationEnabled
    /\ validate_token_stages(VersionIdsToStages, token) = "ValueError"
    /\ Invoked(token, step)
    /\ outcome' = "ValueError"
    /\ UNCHANGED <<VersionIdsToStages, RotationEnabled, SecretString, MasterUserPassword,
                   deployments, environ>>
    /\ UNCHANGED <<schemaVars, mainVars, resolveVars>>

\* lines 105-107 and 259-260
TokenAlreadyCurrent(token, step) ==
    /\ RotationEnabled
    /\ validate_token_stages(VersionIdsToStages, token) = "None"
    /\ Invoked(token, step)
    /\ outcome' = "returned"
    /\ UNCHANGED <<VersionIdsToStages, RotationEnabled, SecretString, MasterUserPassword,
                   deployments, environ>>
    /\ UNCHANGED <<schemaVars, mainVars, resolveVars>>

\* lines 124-134: the pending version has its value already
CreateSecretExists(token) ==
    /\ Dispatched(token)
    /\ PendingValueExists(token)
    /\ Invoked(token, STEP_CREATE_SECRET)
    /\ outcome' = "returned"
    /\ UNCHANGED <<VersionIdsToStages, RotationEnabled, SecretString, MasterUserPassword,
                   deployments, environ>>
    /\ UNCHANGED <<schemaVars, mainVars, resolveVars>>

\* lines 124-146: ResourceNotFoundException, then a new password is stored
CreateSecretPuts(token) ==
    /\ Dispatched(token)
    /\ ~PendingValueExists(token)
    /\ \E new_password \in NewPasswords :
           SecretString' = [v \in DOMAIN SecretString \cup {token} |->
                               IF v = token THEN new_password ELSE SecretString[v]]
    /\ VersionIdsToStages' =
           put_secret_value(VersionIdsToStages, token, VERSION_STAGE_PENDING)
    /\ Invoked(token, STEP_CREATE_SECRET)
    /\ outcome' = "returned"
    /\ UNCHANGED <<RotationEnabled, MasterUserPassword, deployments, environ>>
    /\ UNCHANGED <<schemaVars, mainVars, resolveVars>>

\* lines 157-161: get_secret_value raises ResourceNotFoundException
SetSecretNoValue(token) ==
    /\ Dispatched(token)
    /\ ~PendingValueExists(token)
    /\ Invoked(token, STEP_SET_SECRET)
    /\ outcome' = "ResourceNotFoundException"
    /\ UNCHANGED <<VersionIdsToStages, RotationEnabled, SecretString, MasterUserPassword,
                   deployments, environ>>
    /\ UNCHANGED <<schemaVars, mainVars, resolveVars>>

\* lines 165-168
SetSecretNoCluster(token) ==
    /\ Dispatched(token)
    /\ PendingValueExists(token)
    /\ ENV_RDS_CLUSTER_IDENTIFIER \notin environ
    /\ Invoked(token, STEP_SET_SECRET)
    /\ outcome' = "ValueError"
    /\ UNCHANGED <<VersionIdsToStages, RotationEnabled, SecretString, MasterUserPassword,
                   deployments, environ>>
    /\ UNCHANGED <<schemaVars, mainVars, resolveVars>>

\* lines 157-178
SetSecret(token) ==
    /\ Dispatched(token)
    /\ PendingValueExists(token)
    /\ ENV_RDS_CLUSTER_IDENTIFIER \in environ
    /\ MasterUserPassword' = SecretString[token]
    /\ Invoked(token, STEP_SET_SECRET)
    /\ outcome' = "returned"
    /\ UNCHANGED <<VersionIdsToStages, RotationEnabled, SecretString, deployments, environ>>
    /\ UNCHANGED <<schemaVars, mainVars, resolveVars>>

\* lines 184-188
TestSecret(token) ==
    /\ Dispatched(token)
    /\ Invoked(token, STEP_TEST_SECRET)
    /\ outcome' = "returned"
    /\ UNCHANGED <<VersionIdsToStages, RotationEnabled, SecretString, MasterUserPassword,
                   deployments, environ>>
    /\ UNCHANGED <<schemaVars, mainVars, resolveVars>>

\* lines 199-242: AWSCURRENT moves to the token version; then a deployment is
\* forced, unless a name is not set or update_service fails (its ClientError
\* is logged and dropped)
FinishSecret(token) ==
    /\ Dispatched(token)
    /\ \E current_version \in CurrentVersions(VersionIdsToStages, token),
          keep_pending \in BOOLEAN :
           VersionIdsToStages' =
               update_secret_version_stage(VersionIdsToStages, VERSION_STAGE_CURRENT,
                                           token, current_version, keep_pending)
    /\ \E updated \in BOOLEAN :
           deployments' = IF EcsConfigured /\ updated THEN deployments + 1 ELSE deployments
    /\ Invoked(token, STEP_FINISH_SECRET)
    /\ outcome' = "returned"
    /\ UNCHANGED <<RotationEnabled, SecretString, MasterUserPassword, environ>>
    /\ UNCHANGED <<schemaVars, mainVars, resolveVars>>

\* lines 271-273
InvalidStep(token, step) ==
    /\ Dispatched(token)
    /\ step \notin {STEP_CREATE_SECRET, STEP_SET_SECRET, STEP_TEST_SECRET, STEP_FINISH_SECRET}
    /\ Invoked(token, step)
    /\ outcome' = "ValueError"
    /\ UNCHANGED <<VersionIdsToStages, RotationEnabled, SecretString, MasterUserPassword,
                   deployments, environ>>
    /\ UNCHANGED <<schemaVars, mainVars, resolveVars>>

\* lines 245-273: one invocation of lambda_handler, by the way it ends
NextRotation ==
    \/ \E token \in Tokens, step \in Steps : ServiceCallFails(token, step)
    \/ \E token \in Tokens, step \in Steps : RotationNotEnabled(token, step)
    \/ \E token \in Tokens, step \in Steps : TokenRejected(token, step)
    \/ \E token \in Tokens, step \in Steps : TokenAlreadyCurrent(token, step)
    \/ \E token \in Tokens : CreateSecretExists(token)
    \/ \E token \in Tokens : CreateSecretPuts(token)
    \/ \E token \in Tokens : SetSecretNoValue(token)
    \/ \E token \in Tokens : SetSecretNoCluster(token)
    \/ \E token \in Tokens : SetSecret(token)
    \/ \E token \in Tokens : TestSecret(token)
    \/ \E token \in Tokens : FinishSecret(token)
    \/ \E token \in Tokens, step \in Steps : InvalidStep(token, step)

SpecRotation == InitRotation /\ [][NextRotation]_vars

(***************************************************************************)
(* Properties of the rotation handler, checked under SpecRotation.         *)
(***************************************************************************)
\* The versions that hold AWSCURRENT.
CurrentHolders ==
    {v \in DOMAIN VersionIdsToStages : "AWSCURRENT" \in VersionIdsToStages[v]}

\* What holds of every invocation: a finishSecret that returns leaves
\* AWSCURRENT on its token version, and an invocation whose token version
\* holds AWSCURRENT when it starts changes nothing.
RotationStep ==
    /\ (event'.Step = "finishSecret" /\ outcome' = "returned")
           => CurrentHolders' = {event'.ClientRequestToken}
    /\ event'.ClientRequestToken \in CurrentHolders
           => UNCHANGED <<VersionIdsToStages, RotationEnabled, SecretString,
                          MasterUserPassword, deployments, environ>>

\* C14: from a secret with AWSCURRENT on exactly one version and AWSPENDING
\* on the token version, after any sequence of invocations exactly one version
\* holds AWSCURRENT; after a finishSecret that returns it is the token
\* version; and an invocation made once the token version holds AWSCURRENT
\* changes nothing in the secret, the cluster or the service.
C14_CurrentOnExactlyOneVersion ==
    [](Cardinality(CurrentHolders) = 1) /\ [][RotationStep]_vars

\* C14 witness: createSecret stored a new password under v2, setSecret gave it
\* to the cluster, finishSecret moved AWSCURRENT from v1 to v2 and forced a
\* deployment, and setSecret was invoked again for v2 and returned.
C14_Witness ==
    /\ CurrentHolders = {"v2"}
    /\ "v1" \in DOMAIN VersionIdsToStages /\ "AWSPREVIOUS" \in VersionIdsToStages["v1"]
    /\ "v2" \in DOMAIN SecretString /\ SecretString["v2"] \in NewPasswords
    /\ MasterUserPassword = SecretString["v2"]
    /\ deployments = 1
    /\ event = [ClientRequestToken |-> "v2", Step |-> "setSecret"]
    /\ outcome = "returned"

====
